---- MODULE Spec2Model ----
(***************************************************************************)
(* Domain-claim validation of bts::dns::dns_transaction_validator          *)
(* (libraries/dns/dns_transaction_validator.cpp).                          *)
(*                                                                         *)
(* One candidate block is validated against a fixed ledger (dns_db) and    *)
(* chain height.  evaluate() builds the per-transaction state, the         *)
(* enclosing on_evaluate loop dispatches the transaction's inputs and then *)
(* its outputs to validate_input / validate_output, and a failed FC_ASSERT *)
(* throws out of evaluate().                                               *)
(***************************************************************************)
EXTENDS Integers, Sequences, FiniteSets, TLC

VARIABLES
    ledger,     \* dns_db: name -> committed domain record, or NoRecord
    height,     \* dns_db head block number
    name_pool,  \* dns_block_evaluation_state::name_pool
    state,      \* dns_tx_evaluation_state of the transaction under evaluation
    pc,         \* position of the evaluation: idle, inputs, outputs, accepted, rejected
    dispatched, \* claim inputs / claim outputs handed to the validator in this transaction
    last,       \* the last validate_input / validate_output call: argument, state before, outcome
    pool_at_start, \* name_pool as it was when evaluate was entered for the transaction
    trail,      \* per name: how far the committed claims got in claim, bid, update
    other,      \* the evaluation of a second candidate block while the validator works on the first
    summaries   \* per candidate block, the outcome of each whole transaction it was given

vars == <<ledger, height, name_pool, state, pc, dispatched, last, pool_at_start, trail, other,
          summaries>>

----------------------------------------------------------------------------
(* Bounds of the model *)

MaxHeight == 3      \* chain height at validation time; records are 0..MaxHeight blocks old
MaxAmount == 3      \* amounts locked in outputs range over 0..MaxAmount
MaxPool == 2        \* transactions with a claim output accepted per candidate block
MaxOutputs == 2     \* claim_by_signature outputs carried by one transaction

(* Policy constants of the dns library (dns_util / dns_config) *)

DNS_AUCTION_DURATION_BLOCKS == 1
DNS_EXPIRE_DURATION_BLOCKS == 2
DNS_MIN_BID_INCREMENT == 2
DNS_MAX_NAME_LEN == 5
DNS_MAX_VALUE_LEN == 1

----------------------------------------------------------------------------
(* Data *)

Keys == {"K1", "K2"}
Signers == {"K1"}       \* the keys that sign transactions

possibly_in_auction == "possibly_in_auction"
not_in_auction == "not_in_auction"

ValidNames == {"alice", "bob"}
DomainStates == {possibly_in_auction, not_in_auction}

NoRecord == [exists |-> FALSE]

OK == "ok"

(* claim_domain_output carried by a trx_output with claim_func = claim_domain *)
DomainOutput(n, v, o, s, a) ==
    [claim_func |-> "claim_domain", amount |-> a,
     name |-> n, value |-> v, owner |-> o, state |-> s]

(* claim_by_signature_output *)
SignatureOutput(o, a) ==
    [claim_func |-> "claim_by_signature", amount |-> a, owner |-> o]

(* Claim outputs handed to validate_output: every well-formed claim of
   "alice", one claim of "bob", and one malformed output per format rule *)
DomainOutputs ==
    {DomainOutput("alice", "v", o, s, a) :
        o \in Keys, s \in DomainStates, a \in 1..MaxAmount}
    \cup {DomainOutput("bob", "v", "K2", possibly_in_auction, 1),
          DomainOutput("toolong", "v", "K1", possibly_in_auction, 1),
          DomainOutput("alice", "vv", "K1", possibly_in_auction, 1),
          DomainOutput("alice", "v", "K1", "unknown_state", 1),
          DomainOutput("alice", "v", "K1", possibly_in_auction, 0)}

(* Claim outputs of earlier transactions that a claim input may spend *)
DomainInputs ==
    {DomainOutput("alice", "v", o, s, a) :
        o \in Keys, s \in DomainStates, a \in {1, 2}}
    \cup {DomainOutput("bob", "v", "K2", not_in_auction, 1)}

(* claim_by_signature outputs a transaction may carry: one too small to refund
   any bid, and one per key that refunds a bid on a locked amount of 1 *)
SignatureOutputs ==
    {SignatureOutput("K1", 1)} \cup {SignatureOutput(k, 2) : k \in Keys}

(* A second claim input or claim output of one transaction, when it has one *)
RepeatedInputs ==
    {DomainOutput("alice", "v", "K1", possibly_in_auction, 1),
     DomainOutput("bob", "v", "K2", not_in_auction, 1)}

RepeatedOutputs ==
    {DomainOutput("alice", "v", "K1", possibly_in_auction, MaxAmount),
     DomainOutput("bob", "v", "K2", possibly_in_auction, 1)}

(* Inputs that spend outputs of other kinds *)
OtherInputs == {SignatureOutput("K1", 1)}

RECURSIVE SeqsUpTo(_, _)
SeqsUpTo(S, n) ==
    IF n = 0 THEN {<<>>}
    ELSE LET shorter == SeqsUpTo(S, n - 1)
         IN shorter \cup {Append(q, x) : q \in {p \in shorter : Len(p) = n - 1}, x \in S}

(* signed_transaction: the claim_by_signature outputs of trx.outputs and the
   signature set.  The claim_domain outputs of trx.outputs are drawn when they
   are dispatched: the loop over state.trx.outputs at lines 128-140 skips them
   (right_claim is false).  The transactions are the unsigned ones with up to
   MaxOutputs claim_by_signature outputs and the signed ones with none. *)
Transactions ==
    [outputs : SeqsUpTo(SignatureOutputs, MaxOutputs), signatures : {{}}]
    \cup [outputs : {<<>>}, signatures : SUBSET Signers]

InRange(f) == {f[x] : x \in DOMAIN f}

----------------------------------------------------------------------------
(* dns_db and dns_util *)

has_dns_record(name) == name \in DOMAIN ledger /\ ledger[name] # NoRecord

(* age of the transaction that produced the record of `name` *)
get_tx_age(name) == height - ledger[name].last_update_height

is_valid_name(name) == Len(name) >= 1 /\ Len(name) <= DNS_MAX_NAME_LEN

is_valid_value(value) == Len(value) <= DNS_MAX_VALUE_LEN

is_valid_state(s) == s \in DomainStates

is_valid_amount(amount) == amount > 0

(* prev_tx_ref names the record of the latest committed claim of a name *)
NoRef == ""

auction_is_closed(prev_tx_ref) ==
    get_tx_age(prev_tx_ref) >= DNS_AUCTION_DURATION_BLOCKS

domain_is_expired(prev_tx_ref) ==
    get_tx_age(prev_tx_ref) > DNS_EXPIRE_DURATION_BLOCKS

name_is_available(name, pool) ==
    LET in_pool == name \in InRange(pool)
        exists == has_dns_record(name)
        new_or_expired == ~exists \/ domain_is_expired(name)
    IN [new_or_expired |-> new_or_expired,
        available |-> ~in_pool /\ (new_or_expired \/ ~auction_is_closed(name)),
        prev_tx_ref |-> IF exists THEN name ELSE NoRef]

is_valid_bid_price(prev_bid, bid) ==
    [valid |-> bid >= prev_bid + DNS_MIN_BID_INCREMENT,
     amount_back |-> prev_bid + ((bid - prev_bid) \div 2)]

----------------------------------------------------------------------------
(* transaction_evaluation_state / dns_tx_evaluation_state *)

NoInput == DomainOutput("", "", "", possibly_in_auction, 0)

dns_tx_evaluation_state(tx) ==
    [trx |-> tx,
     seen_domain_input |-> FALSE,
     seen_domain_output |-> FALSE,
     input |-> NoInput,
     input_amount |-> 0,
     required_fees |-> 0]

add_required_fees(st, fee) == [st EXCEPT !.required_fees = @ + fee]

has_signature(st, owner) == owner \in st.trx.signatures

NoState == dns_tx_evaluation_state([outputs |-> <<>>, signatures |-> {}])

(* outcome of a validator call: the reason (OK, or the message of the failed
   FC_ASSERT) and the per-transaction state as the call left it *)
Return(st) == [reason |-> OK, state |-> st]
Throw(st, msg) == [reason |-> msg, state |-> st]

----------------------------------------------------------------------------
(* dns_transaction_validator *)

is_dns_output(out) == out.claim_func = "claim_domain"

(* mutant of DuplicateDomainInput: the flag is not consulted *)
DuplicateDomainInput_Unchecked(st) == FALSE

(* line 74: a transaction carries at most one claim input *)
DuplicateDomainInput(st) == st.seen_domain_input

(* mutant of InputNameKnown: the database is not consulted *)
InputNameKnown_Any(input) == TRUE

(* line 76: the input's name must have a record in the database *)
InputNameKnown(input) == has_dns_record(input.name)

(* mutant of validate_domain_input: the claim output flag is raised too *)
validate_domain_input_MarksOutput(input, amount, st) ==
    IF DuplicateDomainInput(st)
    THEN Throw(st, "More than one domain claim input")
    ELSE IF ~InputNameKnown(input)
    THEN Throw(st, "Input references invalid name")
    ELSE Return([st EXCEPT !.input = input,
                           !.input_amount = amount,
                           !.seen_domain_input = TRUE,
                           !.seen_domain_output = TRUE])

validate_domain_input(input, amount, st) ==
    IF DuplicateDomainInput(st)
    THEN Throw(st, "More than one domain claim input")
    ELSE IF ~InputNameKnown(input)
    THEN Throw(st, "Input references invalid name")
    ELSE Return([st EXCEPT !.input = input,
                           !.input_amount = amount,
                           !.seen_domain_input = TRUE])

(* line 88: a transaction carries at most one claim output *)
DuplicateDomainOutput(st) == st.seen_domain_output

(* mutant of NoDomainInputSeen: every claim output is judged as a new auction *)
NoDomainInputSeen_Always(st) == TRUE

(* line 102: without a claim input the output can only start a new auction *)
NoDomainInputSeen(st) == ~st.seen_domain_input

(* mutant of NewAuctionAllowed: the name pool is not consulted *)
NewAuctionAllowed_IgnoresPool(new_or_expired, available) == new_or_expired

(* line 105 *)
NewAuctionAllowed(new_or_expired, available) == new_or_expired /\ available

(* mutant of NameNewOrExpired: the assertion is left out *)
NameNewOrExpired_Never(new_or_expired) == FALSE

(* line 112 *)
NameNewOrExpired(new_or_expired) == new_or_expired

(* mutant of SameName: the names are not compared *)
SameName_Any(output, input) == TRUE

(* line 113 *)
SameName(output, input) == output.name = input.name

(* mutant of BidPriceAccepted: the price check is dropped *)
BidPriceAccepted_Any(input_amount, amount) == TRUE

(* line 123: the bid must be priced validly against the input's amount *)
BidPriceAccepted(input_amount, amount) ==
    is_valid_bid_price(input_amount, amount).valid

(* mutant of BidRequiredFee: the refund is not deducted *)
BidRequiredFee_Whole(amount, amount_back) == amount

(* line 124: the fee the bid adds to the required fees *)
BidRequiredFee(amount, amount_back) == amount - amount_back

(* mutant of PaysPreviousOwner: the refund must exceed amount_back *)
PaysPreviousOwner_Strict(outputs, amount_back, owner) ==
    \E i \in 1..Len(outputs) :
        /\ outputs[i].claim_func = "claim_by_signature"
        /\ outputs[i].amount > amount_back
        /\ outputs[i].owner = owner

(* mutant of PaysPreviousOwner: the conditions are met by different outputs *)
PaysPreviousOwner_Jointly(outputs, amount_back, owner) ==
    /\ \E i \in 1..Len(outputs) :
          outputs[i].claim_func = "claim_by_signature" /\ outputs[i].amount >= amount_back
    /\ \E j \in 1..Len(outputs) :
          outputs[j].claim_func = "claim_by_signature" /\ outputs[j].owner = owner

(* lines 127-140: some output of the transaction pays the previous owner *)
PaysPreviousOwner(outputs, amount_back, owner) ==
    \E i \in 1..Len(outputs) :
        LET other_out == outputs[i]
            right_claim == other_out.claim_func = "claim_by_signature"
            enough == other_out.amount >= amount_back
            to_owner == right_claim /\ other_out.owner = owner
        IN right_claim /\ enough /\ to_owner

(* mutant of UpdateKeepsAmount: the amount is not compared *)
UpdateKeepsAmount_Any(output, amount, input_amount) == TRUE

(* lines 152-156: a record update keeps the locked amount *)
UpdateKeepsAmount(output, amount, input_amount) ==
    output.state = not_in_auction => amount = input_amount

(* mutant of SignedByOutputOwner: the signature of the input's owner is asked for *)
SignedByOutputOwner_InputOwner(st, output) == has_signature(st, st.input.owner)

(* line 159 *)
SignedByOutputOwner(st, output) == has_signature(st, output.owner)

(* mutant of validate_bid: neither the availability of the name nor the
   state of the input is asked for *)
validate_bid_Unguarded(output, amount, st, available) ==
    IF ~BidPriceAccepted(st.input_amount, amount)
    THEN Throw(st, "Invalid bid amount")
    ELSE LET amount_back == is_valid_bid_price(st.input_amount, amount).amount_back
             st2 == add_required_fees(st, BidRequiredFee(amount, amount_back))
         IN IF ~PaysPreviousOwner(st2.trx.outputs, amount_back, st2.input.owner)
            THEN Throw(st2, "Bid did not pay enough to previous owner")
            ELSE Return(st2)

(* mutant of validate_bid: the availability of the name is not asked for *)
validate_bid_IgnoresPool(output, amount, st, available) ==
    IF st.input.state # possibly_in_auction THEN Throw(st, "Input not for auction")
    ELSE IF ~BidPriceAccepted(st.input_amount, amount) THEN Throw(st, "Invalid bid amount")
    ELSE LET amount_back == is_valid_bid_price(st.input_amount, amount).amount_back
             st2 == add_required_fees(st, BidRequiredFee(amount, amount_back))
         IN IF ~PaysPreviousOwner(st2.trx.outputs, amount_back, st2.input.owner)
            THEN Throw(st2, "Bid did not pay enough to previous owner")
            ELSE Return(st2)

(* mutant of validate_bid: the price is asked for before the state of the input *)
validate_bid_PriceFirst(output, amount, st, available) ==
    IF ~available THEN Throw(st, "Name not available")
    ELSE IF ~BidPriceAccepted(st.input_amount, amount) THEN Throw(st, "Invalid bid amount")
    ELSE IF st.input.state # possibly_in_auction THEN Throw(st, "Input not for auction")
    ELSE LET amount_back == is_valid_bid_price(st.input_amount, amount).amount_back
             st2 == add_required_fees(st, BidRequiredFee(amount, amount_back))
         IN IF ~PaysPreviousOwner(st2.trx.outputs, amount_back, st2.input.owner)
            THEN Throw(st2, "Bid did not pay enough to previous owner")
            ELSE Return(st2)

(* lines 115-145: bid in an existing auction *)
validate_bid(output, amount, st, available) ==
    IF ~available THEN Throw(st, "Name not available")
    ELSE IF st.input.state # possibly_in_auction THEN Throw(st, "Input not for auction")
    ELSE IF ~BidPriceAccepted(st.input_amount, amount) THEN Throw(st, "Invalid bid amount")
    ELSE LET amount_back == is_valid_bid_price(st.input_amount, amount).amount_back
             st2 == add_required_fees(st, BidRequiredFee(amount, amount_back))
         IN IF ~PaysPreviousOwner(st2.trx.outputs, amount_back, st2.input.owner)
            THEN Throw(st2, "Bid did not pay enough to previous owner")
            ELSE Return(st2)

(* mutant of validate_update: the amount of the output is charged as a fee *)
validate_update_ChargesFee(output, amount, st, prev_tx_ref) ==
    IF domain_is_expired(prev_tx_ref) THEN Throw(st, "Domain is expired")
    ELSE IF ~UpdateKeepsAmount(output, amount, st.input_amount)
    THEN Throw(st, "Output amount should not change when updating record")
    ELSE IF ~SignedByOutputOwner(st, output)
    THEN Throw(st, "Domain tx missing required signature")
    ELSE Return(add_required_fees(st, amount))

(* lines 147-160: update or sale once the auction is over *)
validate_update(output, amount, st, prev_tx_ref) ==
    IF domain_is_expired(prev_tx_ref) THEN Throw(st, "Domain is expired")
    ELSE IF ~UpdateKeepsAmount(output, amount, st.input_amount)
    THEN Throw(st, "Output amount should not change when updating record")
    ELSE IF ~SignedByOutputOwner(st, output)
    THEN Throw(st, "Domain tx missing required signature")
    ELSE Return(st)

(* mutant of validate_claim: a pool that holds any name makes every name
   unavailable *)
validate_claim_AnyPooledName(output, amount, st, pool) ==
    LET status == name_is_available(output.name,
                                    IF pool = <<>> THEN pool ELSE Append(pool, output.name))
    IN IF NoDomainInputSeen(st)
       THEN IF NewAuctionAllowed(status.new_or_expired, status.available)
            THEN Return(st)
            ELSE Throw(st, "Name already exists (and is younger than 1 block-year)")
       ELSE IF NameNewOrExpired(status.new_or_expired)
       THEN Throw(st, "Name new or expired")
       ELSE IF ~SameName(output, st.input)
       THEN Throw(st, "Bid tx refers to different input and output names")
       ELSE IF ~auction_is_closed(status.prev_tx_ref)
       THEN validate_bid(output, amount, st, status.available)
       ELSE validate_update(output, amount, st, status.prev_tx_ref)

(* mutant of validate_claim: the status of the input, not the age of the
   record, decides between the bid rules and the update rules *)
validate_claim_ByStatus(output, amount, st, pool) ==
    LET status == name_is_available(output.name, pool)
    IN IF NoDomainInputSeen(st)
       THEN IF NewAuctionAllowed(status.new_or_expired, status.available)
            THEN Return(st)
            ELSE Throw(st, "Name already exists (and is younger than 1 block-year)")
       ELSE IF NameNewOrExpired(status.new_or_expired)
       THEN Throw(st, "Name new or expired")
       ELSE IF ~SameName(output, st.input)
       THEN Throw(st, "Bid tx refers to different input and output names")
       ELSE IF st.input.state = possibly_in_auction
       THEN validate_bid(output, amount, st, status.available)
       ELSE validate_update(output, amount, st, status.prev_tx_ref)

(* mutant of validate_claim: a name that has a record is never claimed anew *)
validate_claim_NoReclaim(output, amount, st, pool) ==
    LET status == name_is_available(output.name, pool)
    IN IF NoDomainInputSeen(st)
       THEN IF NewAuctionAllowed(status.new_or_expired, status.available)
               /\ ~has_dns_record(output.name)
            THEN Return(st)
            ELSE Throw(st, "Name already exists (and is younger than 1 block-year)")
       ELSE IF NameNewOrExpired(status.new_or_expired)
       THEN Throw(st, "Name new or expired")
       ELSE IF ~SameName(output, st.input)
       THEN Throw(st, "Bid tx refers to different input and output names")
       ELSE IF ~auction_is_closed(status.prev_tx_ref)
       THEN validate_bid(output, amount, st, status.available)
       ELSE validate_update(output, amount, st, status.prev_tx_ref)

(* lines 96-160: the name is classified and judged on its path *)
validate_claim(output, amount, st, pool) ==
    LET status == name_is_available(output.name, pool)
    IN IF NoDomainInputSeen(st)
       THEN IF NewAuctionAllowed(status.new_or_expired, status.available)
            THEN Return(st)
            ELSE Throw(st, "Name already exists (and is younger than 1 block-year)")
       ELSE IF NameNewOrExpired(status.new_or_expired)
       THEN Throw(st, "Name new or expired")
       ELSE IF ~SameName(output, st.input)
       THEN Throw(st, "Bid tx refers to different input and output names")
       ELSE IF ~auction_is_closed(status.prev_tx_ref)
       THEN validate_bid(output, amount, st, status.available)
       ELSE validate_update(output, amount, st, status.prev_tx_ref)

(* mutant of validate_domain_output: the name is classified before the format
   rules are asked, and the name rule is left out *)
validate_domain_output_ClassifiesFirst(output, amount, st, pool) ==
    IF DuplicateDomainOutput(st)
    THEN Throw(st, "More than one domain claim output")
    ELSE LET st1 == [st EXCEPT !.seen_domain_output = TRUE]
             r == validate_claim(output, amount, st1, pool)
         IN IF r.reason # OK THEN r
            ELSE IF ~is_valid_value(output.value) THEN Throw(st1, "Invalid value")
            ELSE IF ~is_valid_state(output.state) THEN Throw(st1, "Invalid state")
            ELSE IF ~is_valid_amount(amount) THEN Throw(st1, "Invalid amount")
            ELSE r

validate_domain_output(output, amount, st, pool) ==
    IF DuplicateDomainOutput(st)
    THEN Throw(st, "More than one domain claim output")
    ELSE LET st1 == [st EXCEPT !.seen_domain_output = TRUE]
         IN IF ~is_valid_name(output.name) THEN Throw(st1, "Invalid name")
            ELSE IF ~is_valid_value(output.value) THEN Throw(st1, "Invalid value")
            ELSE IF ~is_valid_state(output.state) THEN Throw(st1, "Invalid state")
            ELSE IF ~is_valid_amount(amount) THEN Throw(st1, "Invalid amount")
            ELSE validate_claim(output, amount, st1, pool)

(* mutant of AddToNamePool: the name is put in front of the pool *)
AddToNamePool_InFront(pool, name) == <<name>> \o pool

(* mutant of AddToNamePool: the name is not recorded *)
AddToNamePool_Forgets(pool, name) == pool

(* lines 60-61: the name of a claim output that passed joins the name pool *)
AddToNamePool(pool, name) == Append(pool, name)

(* outcome of validate_input: the dns branch or the generic validator *)
validate_input(in, st) ==
    IF is_dns_output(in)
    THEN validate_domain_input(in, in.amount, st)
    ELSE Return(st)

(* outcome of validate_output, with the name pool as the call left it *)
validate_output(out, st, pool) ==
    IF is_dns_output(out)
    THEN LET r == validate_domain_output(out, out.amount, st, pool)
         IN [reason |-> r.reason, state |-> r.state,
             name_pool |-> IF r.reason = OK THEN AddToNamePool(pool, out.name) ELSE pool]
    ELSE [reason |-> OK, state |-> st, name_pool |-> pool]

----------------------------------------------------------------------------
(* The state machine *)

NoCall == [op |-> "none", arg |-> NoInput, reason |-> OK,
           pre_state |-> NoState, pre_pool |-> <<>>]

LedgerRecords ==
    [exists : {TRUE}, owner : {"K1"}, state : {possibly_in_auction},
     last_update_height : 0..MaxHeight, last_claim_amount : {1}]

(* mutant of create_block_state: the state handed out is the one that exists *)
create_block_state_Shared(existing) == existing

(* lines 17-20: the name pool of the state that create_block_state returns,
   whatever block state exists when it is called *)
create_block_state(existing) == <<>>

(* a candidate block with a new block state and no transaction under evaluation *)
NewEvaluation(pool) ==
    [name_pool |-> pool, state |-> NoState, pc |-> "idle",
     dispatched |-> [inputs |-> 0, outputs |-> 0], last |-> NoCall,
     pool_at_start |-> pool]

NoEvaluation == NewEvaluation(<<>>)

NoTrail == [stage |-> "none", owner |-> "", amount |-> 0]

(* one candidate block, no whole transaction evaluated in it *)
NoSummaries == << <<>> >>

Init ==
    /\ height = MaxHeight
    /\ ledger \in {l \in [ValidNames -> {NoRecord} \cup LedgerRecords] :
                    l["bob"] = NoRecord
                    \/ l["bob"].last_update_height = MaxHeight - DNS_AUCTION_DURATION_BLOCKS}
    /\ name_pool = <<>>
    /\ state = NoState
    /\ pc = "idle"
    /\ dispatched = [inputs |-> 0, outputs |-> 0]
    /\ last = NoCall
    /\ pool_at_start = <<>>
    /\ trail = [n \in ValidNames |-> NoTrail]
    /\ other = NoEvaluation
    /\ summaries = NoSummaries

(* create_block_state: another candidate block on the same chain state *)
CreateBlockState ==
    /\ pc = "idle"
    /\ name_pool # <<>>
    /\ name_pool' = create_block_state(name_pool)
    /\ state' = NoState
    /\ pc' = "idle"
    /\ dispatched' = [inputs |-> 0, outputs |-> 0]
    /\ last' = NoCall
    /\ pool_at_start' = <<>>
    /\ UNCHANGED <<ledger, height, trail, other, summaries>>

(* mutant of Evaluate: the per-transaction state is kept with the block
   state, so the claim output flag stays raised once a claim output of the
   block has been accepted *)
Evaluate_KeepsFlag(tx) ==
    /\ pc = "idle"
    /\ Len(name_pool) < MaxPool
    /\ state' = [dns_tx_evaluation_state(tx) EXCEPT
                    !.seen_domain_output = (name_pool # <<>>)]
    /\ pc' = "inputs"
    /\ dispatched' = [inputs |-> 0, outputs |-> 0]
    /\ last' = NoCall
    /\ pool_at_start' = name_pool
    /\ UNCHANGED <<ledger, height, name_pool, trail, other, summaries>>

(* evaluate: a new per-transaction state for tx *)
Evaluate(tx) ==
    /\ pc = "idle"
    /\ Len(name_pool) < MaxPool
    /\ state' = dns_tx_evaluation_state(tx)
    /\ pc' = "inputs"
    /\ dispatched' = [inputs |-> 0, outputs |-> 0]
    /\ last' = NoCall
    /\ pool_at_start' = name_pool
    /\ UNCHANGED <<ledger, height, name_pool, trail, other, summaries>>

(* an input of the transaction is handed to validate_input, at one of the
   positions `when` of the evaluation *)
ValidateInputAt(in, when) ==
    /\ pc \in when
    /\ dispatched.inputs > 0 /\ is_dns_output(in) => in \in RepeatedInputs
    /\ LET r == validate_input(in, state)
       IN /\ state' = r.state
          /\ pc' = IF r.reason = OK THEN pc ELSE "rejected"
          /\ last' = [op |-> "input", arg |-> in, reason |-> r.reason,
                      pre_state |-> state, pre_pool |-> name_pool]
    /\ dispatched' = [dispatched EXCEPT !.inputs = @ + (IF is_dns_output(in) THEN 1 ELSE 0)]
    /\ UNCHANGED <<ledger, height, name_pool, pool_at_start, trail, other, summaries>>

(* on_evaluate validates all inputs before the outputs *)
ValidateInput(in) == ValidateInputAt(in, {"inputs"})

(* a caller of the validator that hands over inputs and outputs in any order *)
ValidateInputAnyOrder(in) == ValidateInputAt(in, {"inputs", "outputs"})

(* on_evaluate hands an output of the transaction to validate_output *)
ValidateOutput(out) ==
    /\ pc \in {"inputs", "outputs"}
    /\ ~is_dns_output(out) => out \in InRange(state.trx.outputs)
    /\ dispatched.outputs > 0 /\ is_dns_output(out) => out \in RepeatedOutputs
    /\ LET r == validate_output(out, state, name_pool)
       IN /\ state' = r.state
          /\ name_pool' = r.name_pool
          /\ pc' = IF r.reason = OK THEN "outputs" ELSE "rejected"
          /\ last' = [op |-> "output", arg |-> out, reason |-> r.reason,
                      pre_state |-> state, pre_pool |-> name_pool]
    /\ dispatched' = [dispatched EXCEPT !.outputs = @ + (IF is_dns_output(out) THEN 1 ELSE 0)]
    /\ UNCHANGED <<ledger, height, pool_at_start, trail, other, summaries>>

(* on_evaluate returns the summary: every input and output passed *)
Accept ==
    /\ pc \in {"inputs", "outputs"}
    /\ pc' = "accepted"
    /\ last' = NoCall
    /\ UNCHANGED <<ledger, height, name_pool, state, dispatched, pool_at_start, trail, other, summaries>>

(* evaluate is left, by return or by the exception: its local state is gone,
   the block state stays as the calls left it *)
LeaveEvaluate ==
    /\ pc \in {"accepted", "rejected"}
    /\ pc' = "idle"
    /\ state' = NoState
    /\ dispatched' = [inputs |-> 0, outputs |-> 0]
    /\ last' = NoCall
    /\ pool_at_start' = name_pool
    /\ UNCHANGED <<ledger, height, name_pool, trail, other, summaries>>

Next ==
    \/ CreateBlockState
    \/ \E tx \in Transactions : Evaluate(tx)
    \/ \E in \in DomainInputs \cup OtherInputs : ValidateInput(in)
    \/ \E out \in DomainOutputs \cup SignatureOutputs : ValidateOutput(out)
    \/ Accept
    \/ LeaveEvaluate

Spec == Init /\ [][Next]_vars

NextAnyOrder ==
    \/ CreateBlockState
    \/ \E tx \in Transactions : Evaluate(tx)
    \/ \E in \in DomainInputs \cup OtherInputs : ValidateInputAnyOrder(in)
    \/ \E out \in DomainOutputs \cup SignatureOutputs : ValidateOutput(out)
    \/ Accept
    \/ LeaveEvaluate

SpecAnyOrder == Init /\ [][NextAnyOrder]_vars

----------------------------------------------------------------------------
(* The chain: candidate blocks are validated one after the other, each
   against the ledger as the blocks before it left it, and a block that
   passed is committed: its claim output becomes the record of its name and
   the head moves on by one block. *)

(* the chain grows until a record made MaxHeight blocks after the first one
   has outlived the retention window *)
MaxChainHeight == MaxHeight + DNS_EXPIRE_DURATION_BLOCKS

(* the chain before its first block *)
InitChain ==
    /\ height = 0
    /\ ledger = [n \in ValidNames |-> NoRecord]
    /\ name_pool = <<>>
    /\ state = NoState
    /\ pc = "idle"
    /\ dispatched = [inputs |-> 0, outputs |-> 0]
    /\ last = NoCall
    /\ pool_at_start = <<>>
    /\ trail = [n \in ValidNames |-> NoTrail]
    /\ other = NoEvaluation
    /\ summaries = NoSummaries

(* the transactions of the chain carry at most one claim_by_signature output *)
ChainTransactions == {tx \in Transactions : Len(tx.outputs) <= 1}

(* the claim outputs of the chain are the well-formed claims of "alice" *)
ChainOutputs ==
    {out \in DomainOutputs :
        /\ out.name = "alice"
        /\ is_valid_name(out.name) /\ is_valid_value(out.value)
        /\ is_valid_state(out.state) /\ is_valid_amount(out.amount)}

(* a claim input spends the committed claim output of a name: the one its
   record was made from *)
SpendableClaims ==
    {DomainOutput(n, "v", ledger[n].owner, ledger[n].state, ledger[n].last_claim_amount) :
        n \in {m \in ValidNames : ledger[m].exists}}

(* the record a committed claim output leaves in the ledger *)
DomainRecord(out, block_num) ==
    [exists |-> TRUE, owner |-> out.owner, state |-> out.state,
     last_update_height |-> block_num, last_claim_amount |-> out.amount]

(* the rule an accepted claim output was accepted by *)
ClaimKind(out, st) ==
    IF ~st.seen_domain_input THEN "claim"
    ELSE IF ~auction_is_closed(out.name) THEN "bid"
    ELSE IF out.state = not_in_auction THEN "update"
    ELSE "sale"

(* progress of a name through new claim, bid, update *)
NextTrail(t, kind, out) ==
    IF kind = "claim" THEN [stage |-> "claimed", owner |-> "", amount |-> 0]
    ELSE IF kind = "bid" /\ t.stage \in {"claimed", "bid"}
    THEN [stage |-> "bid", owner |-> out.owner, amount |-> out.amount]
    ELSE IF kind = "update" /\ t.stage = "bid"
    THEN [t EXCEPT !.stage = "updated"]
    ELSE NoTrail

(* the transaction passes with its claim output the last one validated, and
   the block that holds it is committed; the next block gets a new state *)
CommitClaim ==
    /\ pc = "outputs"
    /\ height < MaxChainHeight
    /\ last.op = "output" /\ is_dns_output(last.arg) /\ last.reason = OK
    /\ ledger' = [ledger EXCEPT ![last.arg.name] = DomainRecord(last.arg, height + 1)]
    /\ trail' = [trail EXCEPT ![last.arg.name] =
                    NextTrail(@, ClaimKind(last.arg, last.pre_state), last.arg)]
    /\ height' = height + 1
    /\ name_pool' = <<>>
    /\ state' = NoState
    /\ pc' = "idle"
    /\ dispatched' = [inputs |-> 0, outputs |-> 0]
    /\ last' = NoCall
    /\ pool_at_start' = <<>>
    /\ UNCHANGED <<other, summaries>>

(* a block without claims is committed *)
AdvanceHeight ==
    /\ pc = "idle"
    /\ height < MaxChainHeight
    /\ height' = height + 1
    /\ name_pool' = <<>>
    /\ pool_at_start' = <<>>
    /\ UNCHANGED <<ledger, state, pc, dispatched, last, trail, other, summaries>>

NextChain ==
    \/ \E tx \in ChainTransactions : Evaluate(tx)
    \/ \E in \in SpendableClaims : ValidateInput(in)
    \/ \E out \in ChainOutputs : ValidateOutput(out)
    \/ CommitClaim
    \/ AdvanceHeight
    \/ LeaveEvaluate

SpecChain == InitChain /\ [][NextChain]_vars

----------------------------------------------------------------------------
(* Two candidate blocks on the same ledger, each with the block state that
   create_block_state made for it; the steps of their evaluations interleave.
   `other` holds the evaluation that is not running. *)

(* the validator turns to the other candidate block *)
SwitchBlock ==
    /\ name_pool' = other.name_pool
    /\ state' = other.state
    /\ pc' = other.pc
    /\ dispatched' = other.dispatched
    /\ last' = other.last
    /\ pool_at_start' = other.pool_at_start
    /\ other' = [name_pool |-> name_pool, state |-> state, pc |-> pc,
                 dispatched |-> dispatched, last |-> last,
                 pool_at_start |-> pool_at_start]
    /\ UNCHANGED <<ledger, height, trail, summaries>>

(* the candidate block is given up and another one is started in its place *)
StartCandidateBlock ==
    /\ pc = "idle"
    /\ name_pool # <<>>
    /\ name_pool' = create_block_state(other.name_pool)
    /\ pool_at_start' = name_pool'
    /\ state' = NoState
    /\ pc' = "idle"
    /\ dispatched' = [inputs |-> 0, outputs |-> 0]
    /\ last' = [NoCall EXCEPT !.op = "create_block_state", !.pre_pool = name_pool]
    /\ UNCHANGED <<ledger, height, trail, other, summaries>>

(* the transactions of the two blocks carry no claim_by_signature output *)
ForkTransactions == {tx \in Transactions : tx.outputs = <<>>}

(* the claim outputs of the two blocks: one claim per name *)
ForkOutputs == RepeatedOutputs

NextForks ==
    \/ SwitchBlock
    \/ StartCandidateBlock
    \/ \E tx \in ForkTransactions : Evaluate(tx)
    \/ \E in \in RepeatedInputs : ValidateInput(in)
    \/ \E out \in ForkOutputs : ValidateOutput(out)
    \/ Accept
    \/ LeaveEvaluate

SpecForks == Init /\ [][NextForks]_vars

----------------------------------------------------------------------------
(* Two candidate blocks on the same ledger that hold the same two
   transactions in opposite orders.  A transaction is given whole: its claim
   inputs and claim outputs are the ones on_evaluate hands to validate_input
   and validate_output, the inputs before the outputs, until one of them
   throws.  `summaries` keeps, per block, what evaluate came to for each
   transaction and the name pool it left. *)

(* the signatures and claim_by_signature outputs of the transactions: none,
   the signature of a key, or the refund of a bid on a locked amount of 1 *)
OrderTrx ==
    {tx \in Transactions : tx.outputs \in {<<>>, <<SignatureOutput("K1", 2)>>}}

(* their claim outputs: a claim per name, a second claim of "alice" by another
   key, and a malformed one *)
OrderOutputs ==
    RepeatedOutputs
    \cup {DomainOutput("alice", "v", "K2", not_in_auction, 1),
          DomainOutput("alice", "v", "K1", possibly_in_auction, 0)}

(* transactions with at most one claim input and one claim output, or the
   same claim output twice *)
OrderTransactions ==
    [trx : OrderTrx,
     inputs : {<<>>} \cup {<<in>> : in \in RepeatedInputs},
     outputs : {<<out>> : out \in OrderOutputs}
               \cup {<<out, out>> : out \in RepeatedOutputs}]

(* on_evaluate over the claim inputs: the first one that throws ends it *)
RECURSIVE validate_inputs(_, _)
validate_inputs(ins, st) ==
    IF ins = <<>> THEN Return(st)
    ELSE LET r == validate_input(Head(ins), st)
         IN IF r.reason # OK THEN r ELSE validate_inputs(Tail(ins), r.state)

(* on_evaluate over the claim outputs, with the name pool as they leave it *)
RECURSIVE validate_outputs(_, _, _)
validate_outputs(outs, st, pool) ==
    IF outs = <<>> THEN [reason |-> OK, state |-> st, name_pool |-> pool]
    ELSE LET r == validate_output(Head(outs), st, pool)
         IN IF r.reason # OK THEN r
            ELSE validate_outputs(Tail(outs), r.state, r.name_pool)

(* lines 22-28: evaluate makes the state of the transaction and runs
   on_evaluate with it on the block state *)
evaluate(tx, pool) ==
    LET st == dns_tx_evaluation_state(tx.trx)
        ri == validate_inputs(tx.inputs, st)
    IN IF ri.reason # OK
       THEN [reason |-> ri.reason, name_pool |-> pool]
       ELSE LET ro == validate_outputs(tx.outputs, ri.state, pool)
            IN [reason |-> ro.reason, name_pool |-> ro.name_pool]

(* the summaries of the candidate block the validator works on *)
CurrentSummaries == summaries[Len(summaries)]

(* the transaction the block is given next: any one in the first block, and
   in the second block the ones of the first block, last one first *)
NextInOrder(tx) ==
    /\ Len(CurrentSummaries) <= 1
    /\ Len(summaries) > 1
         => tx = summaries[1][Len(summaries[1]) - Len(CurrentSummaries)].tx

(* evaluate, from call to return, for a whole transaction *)
EvaluateTransaction(tx) ==
    /\ pc = "idle"
    /\ NextInOrder(tx)
    /\ LET r == evaluate(tx, name_pool)
       IN /\ name_pool' = r.name_pool
          /\ pool_at_start' = r.name_pool
          /\ summaries' = [summaries EXCEPT ![Len(summaries)] =
                              Append(@, [tx |-> tx,
                                         accepted |-> (r.reason = OK),
                                         name_pool |-> r.name_pool])]
    /\ UNCHANGED <<ledger, height, state, pc, dispatched, last, trail, other>>

(* the same transactions are put into another candidate block, on the same
   ledger, in the opposite order *)
ReverseOrder ==
    /\ pc = "idle"
    /\ Len(summaries) = 1
    /\ Len(CurrentSummaries) > 1
    /\ name_pool' = create_block_state(name_pool)
    /\ pool_at_start' = name_pool'
    /\ summaries' = Append(summaries, <<>>)
    /\ UNCHANGED <<ledger, height, state, pc, dispatched, last, trail, other>>

NextOrder ==
    \/ \E tx \in OrderTransactions : EvaluateTransaction(tx)
    \/ ReverseOrder

SpecOrder == Init /\ [][NextOrder]_vars

----------------------------------------------------------------------------
(* Properties.  They speak about the last validator call recorded in `last`:
   its argument, the per-transaction state and name pool it started from, and
   its outcome; `state` and `name_pool` are what the call left behind. *)

ClaimOutputCall == last.op = "output" /\ last.arg.claim_func = "claim_domain"
ClaimInputCall == last.op = "input" /\ last.arg.claim_func = "claim_domain"

CallAccepted == last.reason = OK
CallRejected == last.reason # OK

(* format rules the output of the last call satisfies *)
WellFormedOutput ==
    /\ is_valid_name(last.arg.name)
    /\ is_valid_value(last.arg.value)
    /\ is_valid_state(last.arg.state)
    /\ is_valid_amount(last.arg.amount)

InPool(name, pool) == \E i \in 1..Len(pool) : pool[i] = name

RecordExists(name) == name \in ValidNames /\ ledger[name].exists

RecordAge(name) == height - ledger[name].last_update_height

RecordExpired(name) == RecordExists(name) /\ RecordAge(name) > DNS_EXPIRE_DURATION_BLOCKS

AuctionOpen(name) == RecordExists(name) /\ RecordAge(name) < DNS_AUCTION_DURATION_BLOCKS

(* the transaction of the last call carried no claim input *)
NoClaimInput == dispatched.inputs = 0 /\ ~last.pre_state.seen_domain_input

(* the claim output of the last call is the first one of its transaction *)
FirstClaimOutput == ~last.pre_state.seen_domain_output

(* C1 as stated: for a name without ledger record that is not in the name
   pool, a well-formed claim output of a transaction without claim input is
   accepted, and the name is in the pool after validate_output returns *)
C1_FreshClaimAccepted_AsStated ==
    (/\ ClaimOutputCall
     /\ ~RecordExists(last.arg.name)
     /\ ~InPool(last.arg.name, last.pre_pool)
     /\ WellFormedOutput
     /\ NoClaimInput)
    => (CallAccepted /\ InPool(last.arg.name, name_pool))

(* C1 amended: the same, for the first claim output of its transaction *)
C1_FreshClaimAccepted ==
    (/\ ClaimOutputCall
     /\ ~RecordExists(last.arg.name)
     /\ ~InPool(last.arg.name, last.pre_pool)
     /\ WellFormedOutput
     /\ NoClaimInput
     /\ FirstClaimOutput)
    => (CallAccepted /\ InPool(last.arg.name, name_pool))

C1_Witness ==
    /\ ClaimOutputCall
    /\ ~RecordExists(last.arg.name)
    /\ ~InPool(last.arg.name, last.pre_pool)
    /\ WellFormedOutput
    /\ NoClaimInput
    /\ FirstClaimOutput
    /\ CallAccepted
    /\ name_pool = Append(last.pre_pool, last.arg.name)

(* C2: a claim output without claim input for a name that is in the name pool
   is rejected, whatever its amount and whatever the ledger holds for the name;
   when the output gets as far as the name check (first claim output of the
   transaction, well-formed) the reason is that the name already exists *)
C2_PooledNameUnavailable ==
    (/\ ClaimOutputCall
     /\ NoClaimInput
     /\ InPool(last.arg.name, last.pre_pool))
    => /\ CallRejected
       /\ name_pool = last.pre_pool
       /\ (FirstClaimOutput /\ WellFormedOutput)
            => last.reason = "Name already exists (and is younger than 1 block-year)"

(* a name in the pool whose ledger record has expired, or that has none, is
   claimed again in a later transaction of the block *)
C2_Witness ==
    /\ ClaimOutputCall
    /\ NoClaimInput
    /\ InPool(last.arg.name, last.pre_pool)
    /\ dispatched.outputs = 1
    /\ last.arg.amount = MaxAmount
    /\ (~RecordExists(last.arg.name) \/ RecordExpired(last.arg.name))
    /\ last.reason = "Name already exists (and is younger than 1 block-year)"

(* the claim output of the last call passed the duplicate and format checks
   and had its name classified *)
ReachesNameCheck == ClaimOutputCall /\ FirstClaimOutput /\ WellFormedOutput

(* the transaction of the last call had its claim input accepted before *)
ClaimInputSeen == last.pre_state.seen_domain_input

(* open-auction path: claim input seen, record unexpired, output name equal
   to the input name, auction not closed *)
OpenAuctionPath ==
    /\ ReachesNameCheck
    /\ ClaimInputSeen
    /\ RecordExists(last.arg.name) /\ ~RecordExpired(last.arg.name)
    /\ last.arg.name = last.pre_state.input.name
    /\ AuctionOpen(last.arg.name)

(* closed-auction path: claim input seen, record unexpired, output name
   equal to the input name, auction closed *)
ClosedAuctionPath ==
    /\ ReachesNameCheck
    /\ ClaimInputSeen
    /\ RecordExists(last.arg.name) /\ ~RecordExpired(last.arg.name)
    /\ last.arg.name = last.pre_state.input.name
    /\ ~AuctionOpen(last.arg.name)

(* the refund the bid-pricing function computes for the bid of the last call *)
AmountBack ==
    is_valid_bid_price(last.pre_state.input_amount, last.arg.amount).amount_back

(* one output of the transaction is a claim-by-signature output of at least
   `back` owned by `owner` *)
RefundOutputPresent(outs, back, owner) ==
    \E i \in 1..Len(outs) :
        /\ outs[i].claim_func = "claim_by_signature"
        /\ outs[i].amount >= back
        /\ outs[i].owner = owner

RefundPaid ==
    RefundOutputPresent(last.pre_state.trx.outputs, AmountBack,
                        last.pre_state.input.owner)

(* C4: with a claim input seen, the record unexpired and its auction open, a
   claim output whose amount is equal to or below the input's locked amount
   is rejected *)
C4_LowBidRejected ==
    (/\ ClaimOutputCall
     /\ ClaimInputSeen
     /\ RecordExists(last.arg.name) /\ ~RecordExpired(last.arg.name)
     /\ AuctionOpen(last.arg.name)
     /\ last.arg.amount <= last.pre_state.input_amount)
    => CallRejected

(* a bid equal to the locked amount that passes every other bid check and
   pays the refund is turned down for its price *)
C4_Witness ==
    /\ OpenAuctionPath
    /\ ~InPool(last.arg.name, last.pre_pool)
    /\ last.pre_state.input.state = possibly_in_auction
    /\ last.arg.amount = last.pre_state.input_amount
    /\ RefundPaid
    /\ last.reason = "Invalid bid amount"

(* C5 as stated: in the open-auction path, name available, input in
   PossiblyInAuction, every bid strictly above the input's locked amount whose
   transaction pays at least amount_back to the input's owner in one
   signature-claim output is accepted *)
C5_HigherBidAccepted_AsStated ==
    (/\ OpenAuctionPath
     /\ ~InPool(last.arg.name, last.pre_pool)
     /\ last.pre_state.input.state = possibly_in_auction
     /\ last.arg.amount > last.pre_state.input_amount
     /\ RefundPaid)
    => CallAccepted

(* C5 amended: the same for every bid that exceeds the input's locked amount
   by at least the minimum bid increment *)
C5_HigherBidAccepted ==
    (/\ OpenAuctionPath
     /\ ~InPool(last.arg.name, last.pre_pool)
     /\ last.pre_state.input.state = possibly_in_auction
     /\ last.arg.amount >= last.pre_state.input_amount + DNS_MIN_BID_INCREMENT
     /\ RefundPaid)
    => CallAccepted

(* a bid is accepted whose refund output pays exactly amount_back *)
C5_Witness ==
    /\ OpenAuctionPath
    /\ ~InPool(last.arg.name, last.pre_pool)
    /\ last.pre_state.input.state = possibly_in_auction
    /\ last.arg.amount >= last.pre_state.input_amount + DNS_MIN_BID_INCREMENT
    /\ RefundPaid
    /\ \A i \in 1..Len(last.pre_state.trx.outputs) :
          last.pre_state.trx.outputs[i].amount <= AmountBack
    /\ CallAccepted

(* C6: an accepted bid leaves the required fees at their value before the
   output rule plus the bid amount minus amount_back *)
C6_BidFee ==
    (OpenAuctionPath /\ CallAccepted)
    => state.required_fees
         = last.pre_state.required_fees + (last.arg.amount - AmountBack)

C6_Witness ==
    /\ OpenAuctionPath
    /\ CallAccepted
    /\ AmountBack > 0
    /\ last.arg.amount - AmountBack > 0
    /\ state.required_fees
         = last.pre_state.required_fees + (last.arg.amount - AmountBack)

(* C7: with a claim input seen and the auction of the name open, a claim
   output is rejected unless one single output of the transaction is a
   claim-by-signature output of at least amount_back owned by the input's
   owner *)
C7_RefundInOneOutput ==
    (/\ ClaimOutputCall
     /\ ClaimInputSeen
     /\ AuctionOpen(last.arg.name)
     /\ ~RefundPaid)
    => CallRejected

(* two outputs satisfy the conditions only jointly: one pays the owner too
   little, the other pays enough to another key; the bid, valid otherwise, is
   rejected for the missing refund *)
C7_Witness ==
    /\ OpenAuctionPath
    /\ last.reason = "Bid did not pay enough to previous owner"
    /\ \E i, j \in 1..Len(last.pre_state.trx.outputs) :
          LET outs == last.pre_state.trx.outputs
          IN /\ outs[i].owner = last.pre_state.input.owner
             /\ outs[i].amount < AmountBack
             /\ outs[j].owner # last.pre_state.input.owner
             /\ outs[j].amount >= AmountBack

(* C8: in the closed-auction path a claim output with state NotInAuction is
   rejected when its amount differs from input_amount, and accepted when its
   amount equals input_amount and the transaction carries the signature of
   the output's owner *)
C8_UpdateKeepsAmount ==
    /\ (/\ ClaimOutputCall
        /\ ClaimInputSeen
        /\ RecordExists(last.arg.name) /\ ~RecordExpired(last.arg.name)
        /\ ~AuctionOpen(last.arg.name)
        /\ last.arg.name = last.pre_state.input.name
        /\ last.arg.state = not_in_auction
        /\ last.arg.amount # last.pre_state.input_amount)
       => CallRejected
    /\ (/\ ClosedAuctionPath
        /\ last.arg.state = not_in_auction
        /\ last.arg.amount = last.pre_state.input_amount
        /\ last.arg.owner \in last.pre_state.trx.signatures)
       => CallAccepted

C8_Witness ==
    /\ ClosedAuctionPath
    /\ last.arg.state = not_in_auction
    /\ last.arg.amount = last.pre_state.input_amount
    /\ last.arg.owner \in last.pre_state.trx.signatures
    /\ last.arg.owner # last.pre_state.input.owner
    /\ CallAccepted

(* the update that changes the amount is signed by the output's owner and is
   rejected for the amount alone *)
C8_WitnessRejected ==
    /\ ClosedAuctionPath
    /\ last.arg.state = not_in_auction
    /\ last.arg.amount # last.pre_state.input_amount
    /\ last.arg.owner \in last.pre_state.trx.signatures
    /\ last.reason = "Output amount should not change when updating record"

(* C9: a claim output of a transaction whose claim input references a record
   older than the retention window is rejected, and a claim output for a name
   whose record is older than the retention window is accepted only in a
   transaction without claim input *)
C9_ExpiredInputRejected ==
    /\ (/\ ClaimOutputCall
        /\ ClaimInputSeen
        /\ RecordExpired(last.pre_state.input.name))
       => CallRejected
    /\ (/\ ClaimOutputCall
        /\ RecordExpired(last.arg.name)
        /\ CallAccepted)
       => ~ClaimInputSeen

C9_Witness ==
    /\ ReachesNameCheck
    /\ ClaimInputSeen
    /\ RecordExpired(last.pre_state.input.name)
    /\ last.arg.name = last.pre_state.input.name
    /\ ~InPool(last.arg.name, last.pre_pool)
    /\ last.reason = "Name new or expired"

(* C10: a transaction that is not rejected has had at most one claim input
   and at most one claim output, and the second claim input and the second
   claim output handed to the validator are rejected, whatever the order of
   the calls *)
C10_OneClaimEach ==
    /\ pc \in {"inputs", "outputs", "accepted"}
         => dispatched.inputs <= 1 /\ dispatched.outputs <= 1
    /\ (ClaimInputCall /\ dispatched.inputs >= 2)
         => (CallRejected /\ pc = "rejected")
    /\ (ClaimOutputCall /\ dispatched.outputs >= 2)
         => (CallRejected /\ pc = "rejected")

(* a second claim input handed over after the claim output was accepted *)
C10_Witness ==
    /\ ClaimInputCall
    /\ dispatched.inputs = 2
    /\ dispatched.outputs = 1
    /\ last.pre_state.seen_domain_output
    /\ last.reason = "More than one domain claim input"
    /\ pc = "rejected"

(* C11: with a claim input seen, a claim output whose name differs from the
   input's name is rejected, whether the auction of the output's name is open
   or closed *)
C11_RenameRejected ==
    (/\ ClaimOutputCall
     /\ ClaimInputSeen
     /\ last.arg.name # last.pre_state.input.name)
    => CallRejected

(* an update of an unexpired name, signed by its owner and keeping the
   amount, spends the claim of another name and is rejected for the names *)
C11_Witness ==
    /\ ReachesNameCheck
    /\ ClaimInputSeen
    /\ RecordExists(last.arg.name) /\ ~RecordExpired(last.arg.name)
    /\ last.arg.name # last.pre_state.input.name
    /\ last.arg.amount = last.pre_state.input_amount
    /\ last.arg.owner \in last.pre_state.trx.signatures
    /\ last.reason = "Bid tx refers to different input and output names"

(* C13: with a claim input seen and the auction of the output's name closed,
   a claim output, be it an update (NotInAuction) or a transfer or re-auction
   (PossiblyInAuction), is rejected unless the signatures of the transaction
   contain the signature of the output's owner *)
C13_ClosedNeedsOwnerSignature ==
    (/\ ClaimOutputCall
     /\ ClaimInputSeen
     /\ RecordExists(last.arg.name)
     /\ ~AuctionOpen(last.arg.name)
     /\ last.arg.owner \notin last.pre_state.trx.signatures)
    => CallRejected

(* a transfer to another key, signed by the input's owner but not by the
   output's owner, is rejected for the signature *)
C13_Witness ==
    /\ ClosedAuctionPath
    /\ last.arg.state = possibly_in_auction
    /\ last.arg.owner # last.pre_state.input.owner
    /\ last.pre_state.input.owner \in last.pre_state.trx.signatures
    /\ last.arg.owner \notin last.pre_state.trx.signatures
    /\ last.reason = "Domain tx missing required signature"

(* C14: a claim input whose name has no ledger record is rejected, also when
   the name is in the name pool; no transaction that is not rejected holds a
   claim input for a name without record, and so a claim output for a name
   that only an earlier transaction of the block claimed is rejected in every
   transaction with a claim input *)
C14_InputNeedsRecord ==
    /\ (ClaimInputCall /\ ~RecordExists(last.arg.name)) => CallRejected
    /\ (pc # "rejected" /\ state.seen_domain_input) => RecordExists(state.input.name)
    /\ (/\ ClaimOutputCall
        /\ ClaimInputSeen
        /\ ~RecordExists(last.arg.name))
       => CallRejected

(* the name was claimed by an earlier transaction of the block and is in the
   pool; the claim input that references it is rejected for the record *)
C14_Witness ==
    /\ ClaimInputCall
    /\ ~RecordExists(last.arg.name)
    /\ InPool(last.arg.name, last.pre_pool)
    /\ last.reason = "Input references invalid name"

(* C17 as stated: an accepted bid output leaves the name pool as it was *)
C17_BidLeavesPool_AsStated ==
    (OpenAuctionPath /\ CallAccepted) => name_pool = last.pre_pool

(* C17 amended: an accepted bid output appends the name of the bid to the
   name pool and removes nothing from it *)
C17_BidAppendsName ==
    (OpenAuctionPath /\ CallAccepted)
    => name_pool = Append(last.pre_pool, last.arg.name)

(* a bid on a name that is not in the pool is accepted while the pool holds
   the name of an earlier transaction *)
C17_Witness ==
    /\ OpenAuctionPath
    /\ CallAccepted
    /\ last.pre_pool # <<>>
    /\ ~InPool(last.arg.name, last.pre_pool)
    /\ InPool(last.arg.name, name_pool)
    /\ Len(name_pool) = Len(last.pre_pool) + 1

(* C19: an accepted claim input leaves a transaction state that holds the
   input and its amount and has the claim input flag raised, and that is
   otherwise the state before the call (required fees, claim output flag,
   transaction); the name pool is the pool before the call *)
C19_InputFrame ==
    (ClaimInputCall /\ CallAccepted)
    => /\ state.input = last.arg
       /\ state.input_amount = last.arg.amount
       /\ state.seen_domain_input
       /\ state.seen_domain_output = last.pre_state.seen_domain_output
       /\ state.required_fees = last.pre_state.required_fees
       /\ state.trx = last.pre_state.trx
       /\ name_pool = last.pre_pool

(* the input is accepted in a block whose pool is not empty *)
C19_Witness ==
    /\ ClaimInputCall
    /\ CallAccepted
    /\ last.pre_pool # <<>>
    /\ name_pool = last.pre_pool
    /\ state.input = last.arg
    /\ state.input_amount = last.arg.amount
    /\ ~last.pre_state.seen_domain_input /\ state.seen_domain_input
    /\ ~state.seen_domain_output

(* C20: with a claim input seen and the auction of the output's name open, a
   claim output is rejected when the name is in the name pool and when the
   state of the input is not PossiblyInAuction, whatever the bid amount and
   the refund *)
C20_BidNeedsAvailableAuctionInput ==
    (/\ ClaimOutputCall
     /\ ClaimInputSeen
     /\ AuctionOpen(last.arg.name)
     /\ (\/ InPool(last.arg.name, last.pre_pool)
         \/ last.pre_state.input.state # possibly_in_auction))
    => CallRejected

(* a bid with a valid price and the refund paid is rejected because an
   earlier transaction of the block put the name into the pool *)
C20_Witness ==
    /\ OpenAuctionPath
    /\ InPool(last.arg.name, last.pre_pool)
    /\ last.pre_state.input.state = possibly_in_auction
    /\ last.arg.amount >= last.pre_state.input_amount + DNS_MIN_BID_INCREMENT
    /\ RefundPaid
    /\ last.reason = "Name not available"

(* a bid with a valid price and the refund paid, for a name that is not in
   the pool, is rejected because its input is not in auction *)
C20_WitnessInputState ==
    /\ OpenAuctionPath
    /\ ~InPool(last.arg.name, last.pre_pool)
    /\ last.pre_state.input.state = not_in_auction
    /\ last.arg.amount >= last.pre_state.input_amount + DNS_MIN_BID_INCREMENT
    /\ RefundPaid
    /\ last.reason = "Input not for auction"

(* C12 as stated: once an input or output of a transaction is rejected, the
   name pool is the pool from before the transaction started, and after
   evaluate is left no required fees of the transaction remain *)
C12_RejectedLeavesNoTrace ==
    /\ pc = "rejected" => name_pool = pool_at_start
    /\ pc = "idle" => state.required_fees = 0

(* C16 as stated: after a new claim of a name, then a bid on it, then a
   closed-auction update, each committed, the record of the name has the
   owner of the bid output and the amount of the bid *)
C16_RoundTrip ==
    \A n \in ValidNames :
        trail[n].stage = "updated"
        => /\ ledger[n].owner = trail[n].owner
           /\ ledger[n].last_claim_amount = trail[n].amount

(* C15: a well-formed claim output without claim input for a name whose
   record is older than the retention window is accepted when the name is
   not in the name pool, and a record that is older than the retention window
   stays so while the head of the chain advances and no claim of the name is
   committed *)
C15_ExpiredNameReclaimable ==
    /\ []((/\ ClaimOutputCall
           /\ NoClaimInput
           /\ FirstClaimOutput
           /\ WellFormedOutput
           /\ RecordExpired(last.arg.name)
           /\ ~InPool(last.arg.name, last.pre_pool))
          => (CallAccepted /\ InPool(last.arg.name, name_pool)))
    /\ [][\A n \in ValidNames :
            (RecordExpired(n) /\ ledger'[n] = ledger[n] /\ height' >= height)
            => (ledger'[n].exists
                /\ height' - ledger'[n].last_update_height > DNS_EXPIRE_DURATION_BLOCKS)]_vars

(* a name that was claimed and committed on the chain is claimed again, two
   blocks after its record outlived the retention window *)
C15_Witness ==
    /\ ClaimOutputCall
    /\ NoClaimInput
    /\ ledger[last.arg.name].exists
    /\ ledger[last.arg.name].last_update_height > 0
    /\ RecordAge(last.arg.name) > DNS_EXPIRE_DURATION_BLOCKS + 1
    /\ ledger[last.arg.name].owner # last.arg.owner
    /\ CallAccepted
    /\ InPool(last.arg.name, name_pool)

(* C18: the state create_block_state returns has an empty name pool; a
   well-formed first claim output without claim input for a name that has no
   unexpired record and is not in the pool of its own block is accepted
   although the name is in the pool of the other candidate block; and the
   pool of the block that is not being validated stays as it is *)
C18_OwnBlockState ==
    /\ [](last.op = "create_block_state" => name_pool = <<>>)
    /\ []((/\ ClaimOutputCall
           /\ NoClaimInput
           /\ FirstClaimOutput
           /\ WellFormedOutput
           /\ (~RecordExists(last.arg.name) \/ RecordExpired(last.arg.name))
           /\ ~InPool(last.arg.name, last.pre_pool)
           /\ InPool(last.arg.name, other.name_pool))
          => CallAccepted)
    /\ [][other'.name_pool # other.name_pool => other'.name_pool = name_pool]_vars

(* the name is claimed in one block while the other block, whose evaluation
   is under way, has it in its pool *)
C18_Witness ==
    /\ ClaimOutputCall
    /\ NoClaimInput
    /\ ~InPool(last.arg.name, last.pre_pool)
    /\ InPool(last.arg.name, other.name_pool)
    /\ other.pc \in {"inputs", "outputs"}
    /\ CallAccepted
    /\ InPool(last.arg.name, name_pool)

IsPrefix(p, q) == Len(p) <= Len(q) /\ SubSeq(q, 1, Len(p)) = p

(* a step that replaces the block state by a new one: no evaluation is under
   way before or after it *)
BlockStateReplaced == pc = "idle" /\ pc' = "idle"

(* C21: while the block state is not replaced, every step leaves the name
   pool a prefix of the pool after it, and the pool changes only in a step
   that is an accepted claim output call, by the name of that output appended
   at its end; the pool a transaction started from is a prefix of the pool at
   every point of its evaluation *)
C21_PoolAppendOnly ==
    /\ [](pc # "idle" => IsPrefix(pool_at_start, name_pool))
    /\ [][~BlockStateReplaced
          => /\ IsPrefix(name_pool, name_pool')
             /\ name_pool' # name_pool
                  => /\ last'.op = "output"
                     /\ last'.arg.claim_func = "claim_domain"
                     /\ last'.reason = OK
                     /\ last'.pre_pool = name_pool
                     /\ name_pool' = Append(name_pool, last'.arg.name)]_vars

(* the second name of a block is appended behind the first *)
C21_Witness ==
    /\ ClaimOutputCall
    /\ CallAccepted
    /\ Len(last.pre_pool) = 1
    /\ Len(name_pool) = 2
    /\ name_pool[1] = last.pre_pool[1]
    /\ name_pool[2] = last.arg.name
    /\ name_pool[1] # name_pool[2]

FormatReasons == {"Invalid name", "Invalid value", "Invalid state", "Invalid amount"}

(* C22: the first claim output of a transaction that fails a format rule is
   rejected with the reason of a format rule, whatever the ledger and the
   pool hold for its name, and leaves the pool as it was; every accepted
   claim output satisfies the four format rules; every entry of the name pool
   satisfies the name rule *)
C22_FormatGuardsPool ==
    /\ (ClaimOutputCall /\ FirstClaimOutput /\ ~WellFormedOutput)
         => (last.reason \in FormatReasons /\ name_pool = last.pre_pool)
    /\ (ClaimOutputCall /\ CallAccepted) => WellFormedOutput
    /\ \A i \in 1..Len(name_pool) : is_valid_name(name_pool[i])
    /\ \A i \in 1..Len(other.name_pool) : is_valid_name(other.name_pool[i])

(* an output with an invalid amount for a name that is in the pool is
   rejected for the amount, not for the name *)
C22_Witness ==
    /\ ClaimOutputCall
    /\ FirstClaimOutput
    /\ NoClaimInput
    /\ is_valid_name(last.arg.name)
    /\ InPool(last.arg.name, last.pre_pool)
    /\ ~is_valid_amount(last.arg.amount)
    /\ last.reason = "Invalid amount"
    /\ name_pool = last.pre_pool

(* an output whose name is too long is rejected for the name *)
C22_WitnessName ==
    /\ ClaimOutputCall
    /\ ~is_valid_name(last.arg.name)
    /\ last.reason = "Invalid name"
    /\ last.pre_pool # <<>>
    /\ name_pool = last.pre_pool

(* C23: for a name whose record has status PossiblyInAuction and is older than
   the retention window, a well-formed first claim output of a transaction
   without claim input is accepted when the name is not in the pool, by the
   fresh-claim rule (name appended, required fees untouched); a claim output
   of a transaction whose claim input names that record is rejected with the
   required fees untouched, and for the new-or-expired reason when it gets as
   far as the name check with the name of the input *)
C23_ExpirationDominates ==
    /\ (/\ ReachesNameCheck
        /\ NoClaimInput
        /\ RecordExpired(last.arg.name)
        /\ ledger[last.arg.name].state = possibly_in_auction
        /\ ~InPool(last.arg.name, last.pre_pool))
       => /\ CallAccepted
          /\ name_pool = Append(last.pre_pool, last.arg.name)
          /\ state.required_fees = last.pre_state.required_fees
    /\ (/\ ClaimOutputCall
        /\ ClaimInputSeen
        /\ RecordExpired(last.pre_state.input.name)
        /\ ledger[last.pre_state.input.name].state = possibly_in_auction)
       => /\ CallRejected
          /\ state.required_fees = last.pre_state.required_fees
          /\ name_pool = last.pre_pool
          /\ (ReachesNameCheck /\ last.arg.name = last.pre_state.input.name)
               => last.reason = "Name new or expired"

(* what would be a valid bid, with the refund paid, on a record in
   PossiblyInAuction that has expired is rejected as new or expired *)
C23_Witness ==
    /\ ReachesNameCheck
    /\ ClaimInputSeen
    /\ last.arg.name = last.pre_state.input.name
    /\ RecordExpired(last.arg.name)
    /\ ledger[last.arg.name].state = possibly_in_auction
    /\ last.pre_state.input.state = possibly_in_auction
    /\ last.arg.amount >= last.pre_state.input_amount + DNS_MIN_BID_INCREMENT
    /\ RefundPaid
    /\ ~InPool(last.arg.name, last.pre_pool)
    /\ last.reason = "Name new or expired"
    /\ state.required_fees = 0

(* the expired record in PossiblyInAuction is claimed anew *)
C23_WitnessFresh ==
    /\ ReachesNameCheck
    /\ NoClaimInput
    /\ RecordExpired(last.arg.name)
    /\ ledger[last.arg.name].state = possibly_in_auction
    /\ CallAccepted
    /\ name_pool = <<last.arg.name>>

(* C24: a call of the claim validator that leaves the required fees different
   from what they were is a claim output call on the open-auction path; an
   accepted fresh claim and an accepted closed-auction update or transfer
   leave the required fees as they were *)
C24_FeesOnlyOnBidPath ==
    /\ (last.op \in {"input", "output"}
        /\ state.required_fees # last.pre_state.required_fees)
       => OpenAuctionPath
    /\ (ClaimOutputCall /\ CallAccepted /\ NoClaimInput)
       => state.required_fees = last.pre_state.required_fees
    /\ (ClosedAuctionPath /\ CallAccepted)
       => state.required_fees = last.pre_state.required_fees

(* a sale to another key at a higher amount is accepted once the auction is
   closed, and no fee is required *)
C24_Witness ==
    /\ ClosedAuctionPath
    /\ CallAccepted
    /\ last.arg.state = possibly_in_auction
    /\ last.arg.amount > last.pre_state.input_amount
    /\ state.required_fees = 0

(* the outcome the fixed order of the checks gives the claim output of the
   last call: the reason of the first check that fails, or OK *)
FormatOutcome ==
    IF ~is_valid_name(last.arg.name) THEN "Invalid name"
    ELSE IF ~is_valid_value(last.arg.value) THEN "Invalid value"
    ELSE IF ~is_valid_state(last.arg.state) THEN "Invalid state"
    ELSE IF ~is_valid_amount(last.arg.amount) THEN "Invalid amount"
    ELSE OK

BidOutcome ==
    IF InPool(last.arg.name, last.pre_pool) THEN "Name not available"
    ELSE IF last.pre_state.input.state # possibly_in_auction THEN "Input not for auction"
    ELSE IF last.arg.amount < last.pre_state.input_amount + DNS_MIN_BID_INCREMENT
    THEN "Invalid bid amount"
    ELSE IF ~RefundPaid THEN "Bid did not pay enough to previous owner"
    ELSE OK

ClosedOutcome ==
    IF RecordExpired(last.arg.name) THEN "Domain is expired"
    ELSE IF last.arg.state = not_in_auction /\ last.arg.amount # last.pre_state.input_amount
    THEN "Output amount should not change when updating record"
    ELSE IF last.arg.owner \notin last.pre_state.trx.signatures
    THEN "Domain tx missing required signature"
    ELSE OK

ExpectedOutcome ==
    IF ~FirstClaimOutput THEN "More than one domain claim output"
    ELSE IF FormatOutcome # OK THEN FormatOutcome
    ELSE IF ~ClaimInputSeen
    THEN IF (~RecordExists(last.arg.name) \/ RecordExpired(last.arg.name))
            /\ ~InPool(last.arg.name, last.pre_pool)
         THEN OK
         ELSE "Name already exists (and is younger than 1 block-year)"
    ELSE IF ~RecordExists(last.arg.name) \/ RecordExpired(last.arg.name)
    THEN "Name new or expired"
    ELSE IF last.arg.name # last.pre_state.input.name
    THEN "Bid tx refers to different input and output names"
    ELSE IF AuctionOpen(last.arg.name) THEN BidOutcome
    ELSE ClosedOutcome

(* C25: the outcome of a claim output call is the reason of the first failing
   check in the order duplicate output, name, value, state, amount, then name
   exists without claim input, or with one: new or expired, different names,
   and the bid checks (not available, input state, price, refund) or the
   closed-auction checks (expired, amount changed, signature); a transaction
   without claim input is never rejected for different names *)
C25_FirstFailingCheck ==
    ClaimOutputCall
    => /\ last.reason = ExpectedOutcome
       /\ ~ClaimInputSeen
            => last.reason # "Bid tx refers to different input and output names"

(* a bid that fails the input state, the price and the refund at once is
   rejected for the state of the input *)
C25_Witness ==
    /\ OpenAuctionPath
    /\ ~InPool(last.arg.name, last.pre_pool)
    /\ last.pre_state.input.state = not_in_auction
    /\ last.arg.amount < last.pre_state.input_amount + DNS_MIN_BID_INCREMENT
    /\ ~RefundPaid
    /\ last.reason = "Input not for auction"

(* the claim output of the last call names the unexpired record of its claim
   input *)
InputPath ==
    /\ ReachesNameCheck
    /\ ClaimInputSeen
    /\ RecordExists(last.arg.name) /\ ~RecordExpired(last.arg.name)
    /\ last.arg.name = last.pre_state.input.name

(* C26: a claim output that names the unexpired record of its claim input is
   judged by the bid checks, and charged the bid fee when accepted, if fewer
   than the auction duration of blocks lie between the record and the head;
   otherwise it is judged by the closed-auction checks alone and no fee is
   required; the head of the chain never moves back, and a record whose
   auction is closed at some head is closed at every later head while no
   claim of the name is committed *)
C26_BidRulesWhileOpen ==
    /\ []((InputPath /\ RecordAge(last.arg.name) < DNS_AUCTION_DURATION_BLOCKS)
          => /\ last.reason = BidOutcome
             /\ CallAccepted
                  => state.required_fees
                       = last.pre_state.required_fees + (last.arg.amount - AmountBack))
    /\ []((InputPath /\ RecordAge(last.arg.name) >= DNS_AUCTION_DURATION_BLOCKS)
          => /\ last.reason = ClosedOutcome
             /\ state.required_fees = last.pre_state.required_fees)
    /\ [][\A n \in ValidNames :
            (ledger[n].exists /\ ledger'[n] = ledger[n])
            => /\ height' >= height
               /\ ~AuctionOpen(n) => height' - ledger'[n].last_update_height
                                        >= DNS_AUCTION_DURATION_BLOCKS]_vars

(* the record was made by a bid; a block later a sale at a higher amount, in
   a transaction without any refund output, is accepted and no fee is due *)
C26_Witness ==
    /\ InputPath
    /\ trail[last.arg.name].stage = "bid"
    /\ RecordAge(last.arg.name) = DNS_AUCTION_DURATION_BLOCKS
    /\ last.pre_state.trx.outputs = <<>>
    /\ CallAccepted
    /\ state.required_fees = 0

(* C27 as stated: in the closed-auction path a claim output of a transaction
   that does not carry the signature of the owner recorded in the claim input
   is rejected *)
C27_OnlyOwnerChanges ==
    (/\ ClosedAuctionPath
     /\ last.pre_state.input.owner \notin last.pre_state.trx.signatures)
    => CallRejected

(* the ledger classifies the name as new or expired *)
NewOrExpired(name) == ~RecordExists(name) \/ RecordExpired(name)

(* C28: a name that is in the pool and that the ledger classifies as new or
   expired, that is a name claimed anew earlier in the block, is claimed by
   no later claim output: the output is rejected, the pool stays as it is,
   and an output that gets as far as the name check is rejected because the
   name exists when its transaction has no claim input, and because the name
   is new or expired when it has one *)
C28_FreshClaimBlocksName ==
    (/\ ClaimOutputCall
     /\ InPool(last.arg.name, last.pre_pool)
     /\ NewOrExpired(last.arg.name))
    => /\ CallRejected
       /\ name_pool = last.pre_pool
       /\ (ReachesNameCheck /\ ~ClaimInputSeen)
            => last.reason = "Name already exists (and is younger than 1 block-year)"
       /\ (ReachesNameCheck /\ ClaimInputSeen)
            => last.reason = "Name new or expired"

(* the expired name was claimed anew by an earlier transaction of the block;
   a later transaction that spends the old claim of the name and is signed
   by its owner is rejected as new or expired *)
C28_Witness ==
    /\ ReachesNameCheck
    /\ ClaimInputSeen
    /\ last.pre_state.input.name = last.arg.name
    /\ InPool(last.arg.name, last.pre_pool)
    /\ pool_at_start = last.pre_pool
    /\ RecordExpired(last.arg.name)
    /\ last.arg.owner \in last.pre_state.trx.signatures
    /\ last.reason = "Name new or expired"

(* a name without record was claimed earlier in the block; a later
   transaction with the claim input of another name is rejected *)
C28_WitnessOtherInput ==
    /\ ReachesNameCheck
    /\ ClaimInputSeen
    /\ ~RecordExists(last.arg.name)
    /\ InPool(last.arg.name, last.pre_pool)
    /\ last.reason = "Name new or expired"

(* how often the name occurs in the pool *)
Occurrences(name, pool) == Cardinality({i \in 1..Len(pool) : pool[i] = name})

(* C29: a name whose auction is open occurs at most once in the name pool; a
   claim output with a claim input for such a name is rejected once the name
   is in the pool, as not available when it gets as far as the bid checks;
   and the bid that passes the other bid checks is accepted while the name
   is not in the pool, so of two such bids the one validated first is
   accepted and the other is not *)
C29_OneBidPerName ==
    /\ \A n \in ValidNames : AuctionOpen(n) => Occurrences(n, name_pool) <= 1
    /\ (/\ ClaimOutputCall
        /\ ClaimInputSeen
        /\ AuctionOpen(last.arg.name)
        /\ InPool(last.arg.name, last.pre_pool))
       => /\ CallRejected
          /\ name_pool = last.pre_pool
          /\ OpenAuctionPath => last.reason = "Name not available"
    /\ (/\ OpenAuctionPath
        /\ ~InPool(last.arg.name, last.pre_pool)
        /\ last.pre_state.input.state = possibly_in_auction
        /\ last.arg.amount >= last.pre_state.input_amount + DNS_MIN_BID_INCREMENT
        /\ RefundPaid)
       => (CallAccepted /\ Occurrences(last.arg.name, name_pool) = 1)

(* the second of two bids on a name, each valid by itself, comes from another
   transaction of the block and is rejected as not available *)
C29_Witness ==
    /\ OpenAuctionPath
    /\ Occurrences(last.arg.name, last.pre_pool) = 1
    /\ pool_at_start = last.pre_pool
    /\ last.pre_state.input.state = possibly_in_auction
    /\ last.arg.amount >= last.pre_state.input_amount + DNS_MIN_BID_INCREMENT
    /\ RefundPaid
    /\ last.reason = "Name not available"
    /\ name_pool = last.pre_pool

(* C30: no call is ever rejected with the reason of the expiry check of the
   closed-auction path; a claim output that names the record of its claim
   input and gets as far as the name check is rejected as new or expired
   when the record is older than the retention window *)
C30_ExpiredReasonNeverProduced ==
    /\ last.reason # "Domain is expired"
    /\ (/\ ReachesNameCheck
        /\ ClaimInputSeen
        /\ RecordExpired(last.arg.name))
       => last.reason = "Name new or expired"

(* an update of an expired record that keeps the amount and is signed by the
   owner of the output, so that only the age of the record stands against
   it, is rejected as new or expired *)
C30_Witness ==
    /\ ReachesNameCheck
    /\ ClaimInputSeen
    /\ last.arg.name = last.pre_state.input.name
    /\ RecordExpired(last.arg.name)
    /\ last.arg.state = not_in_auction
    /\ last.arg.amount = last.pre_state.input_amount
    /\ last.arg.owner \in last.pre_state.trx.signatures
    /\ last.reason = "Name new or expired"

(* the names of the pool the transaction started from were all claimed
   through a claim input: their records exist and have not expired *)
EarlierClaimsSpentInputs ==
    /\ pool_at_start # <<>>
    /\ \A i \in 1..Len(pool_at_start) :
          RecordExists(pool_at_start[i]) /\ ~RecordExpired(pool_at_start[i])

(* what the calls of a transaction find, whatever the block has seen *)
NewTransactionState ==
    /\ (pc = "inputs" /\ last = NoCall)
         => /\ ~state.seen_domain_input
            /\ ~state.seen_domain_output
            /\ state.input = NoInput
            /\ state.required_fees = 0
    /\ (ClaimInputCall /\ dispatched.inputs = 1)
         => /\ ~last.pre_state.seen_domain_input
            /\ ~last.pre_state.seen_domain_output
            /\ last.reason # "More than one domain claim input"
    /\ (ClaimOutputCall /\ dispatched.outputs = 1)
         => /\ ~last.pre_state.seen_domain_output
            /\ last.reason # "More than one domain claim output"

(* C31: evaluate makes a new per-transaction state for every transaction:
   when a transaction starts, whatever the block has seen before, neither
   flag is raised, no input is stored and no fee is required, so the first
   claim input and the first claim output of a transaction are never
   rejected as duplicates, also in a block whose earlier transactions
   carried a claim input and a claim output *)
C31_FlagsStartFalse ==
    /\ []NewTransactionState
    /\ [][(pc = "idle" /\ pc' = "inputs")
            => /\ ~state'.seen_domain_input
               /\ ~state'.seen_domain_output
               /\ name_pool' = name_pool]_vars

(* a later transaction of a block whose earlier transactions carried a claim
   input and a claim output: its one claim input and its one claim output
   are both accepted *)
C31_Witness ==
    /\ EarlierClaimsSpentInputs
    /\ ClaimOutputCall /\ CallAccepted
    /\ dispatched.inputs = 1 /\ dispatched.outputs = 1
    /\ last.pre_state.seen_domain_input
    /\ ~last.pre_state.seen_domain_output
    /\ state.seen_domain_input /\ state.seen_domain_output
    /\ pc = "outputs"

(* the names a transaction's claim inputs and claim outputs name *)
NamesOf(tx) ==
    {tx.inputs[i].name : i \in 1..Len(tx.inputs)}
    \cup {tx.outputs[i].name : i \in 1..Len(tx.outputs)}

(* a transaction that claims a name anew: no claim input, one claim output,
   and that one well-formed *)
FreshClaimOf(tx, name) ==
    /\ tx.inputs = <<>>
    /\ Len(tx.outputs) = 1
    /\ tx.outputs[1].name = name
    /\ is_valid_name(name)
    /\ is_valid_value(tx.outputs[1].value)
    /\ is_valid_state(tx.outputs[1].state)
    /\ is_valid_amount(tx.outputs[1].amount)

(* the first block has been given two transactions *)
FirstOrderDone == Len(summaries[1]) > 1

(* the second block has been given the two transactions of the first one,
   the other way round *)
BothOrdersDone ==
    /\ Len(summaries) > 1
    /\ FirstOrderDone
    /\ Len(summaries[2]) > 1
    /\ summaries[2][1].tx = summaries[1][2].tx
    /\ summaries[2][2].tx = summaries[1][1].tx

(* the two transactions name different names *)
DifferentNames == NamesOf(summaries[1][1].tx) \cap NamesOf(summaries[1][2].tx) = {}

(* the two transactions claim the same name anew, and the ledger has the name
   as new or expired *)
SameFreshName ==
    \E name \in ValidNames :
        /\ NewOrExpired(name)
        /\ FreshClaimOf(summaries[1][1].tx, name)
        /\ FreshClaimOf(summaries[1][2].tx, name)

(* C32: two transactions of a block that name different names come to the
   same decision each, and leave the same set of names in the pool, in
   either order of validation; of two transactions that claim the same
   available name anew, in either order the one validated first is accepted
   and the other one is rejected *)
C32_DifferentNamesCommute ==
    /\ (BothOrdersDone /\ DifferentNames)
         => /\ summaries[2][2].accepted = summaries[1][1].accepted
            /\ summaries[2][1].accepted = summaries[1][2].accepted
            /\ InRange(summaries[2][2].name_pool) = InRange(summaries[1][2].name_pool)
    /\ (FirstOrderDone /\ SameFreshName)
         => /\ summaries[1][1].accepted
            /\ ~summaries[1][2].accepted
    /\ (BothOrdersDone /\ SameFreshName)
         => /\ summaries[2][1].accepted
            /\ ~summaries[2][2].accepted

(* an update of "alice" and a new claim of "bob", both accepted in either order *)
C32_Witness ==
    /\ BothOrdersDone /\ DifferentNames
    /\ summaries[1][1].tx.inputs # <<>>
    /\ summaries[1][2].tx.inputs = <<>>
    /\ \A b \in 1..2 : \A i \in 1..2 : summaries[b][i].accepted
    /\ name_pool = <<"bob", "alice">>

(* different names, one transaction accepted and the other one rejected *)
C32_WitnessMixed ==
    /\ BothOrdersDone /\ DifferentNames
    /\ summaries[1][1].accepted /\ ~summaries[1][2].accepted
    /\ Len(summaries[1][2].tx.outputs) > 1
    /\ Len(summaries[1][2].name_pool) > 1

(* two different transactions claim the same name anew: in either order the
   first one is accepted *)
C32_WitnessSameName ==
    /\ BothOrdersDone /\ SameFreshName
    /\ summaries[1][1].tx # summaries[1][2].tx
    /\ summaries[1][1].accepted /\ ~summaries[1][2].accepted
    /\ summaries[2][1].accepted /\ ~summaries[2][2].accepted

====
